---- MODULE Spec2Model ----
(***************************************************************************)
(* A model of the RESP serializer of vtta/resp (src/src/ser.rs): the       *)
(* Serializer's output buffer, every method of its serde::Serializer and   *)
(* compound-trait implementations, the to_string entry point, and the      *)
(* decoder the crate exports as from_str.                                  *)
(*                                                                         *)
(* Bytes are integers 0..255, the output buffer is a sequence of bytes,    *)
(* a text is a sequence of Unicode code points whose bytes are its UTF-8   *)
(* encoding, and numbers are formatted digit by digit.  serialize_f32 and   *)
(* serialize_f64 format the number with Display and hand the text to       *)
(* serialize_str, as collect_str does; the model has them as collect_str.  *)
(***************************************************************************)
EXTENDS Integers, Sequences, FiniteSets

(***************************************************************************)
(* Bounds of the model.                                                    *)
(***************************************************************************)
MaxInt == 12
MaxStrLen == 2
MaxBytesLen == 2
MaxSeqLen == 2
MaxNested == 1

(***************************************************************************)
(* Byte strings written by the serializer.                                 *)
(***************************************************************************)
CRLF == <<13, 10>>
Colon == <<58>>
Plus == <<43>>
Dollar == <<36>>
Star == <<42>>
NullBulk == <<36, 45, 49, 13, 10>>
PairHeader == <<42, 50, 13, 10>>

\* Vec<u8> as io::Write: write_all appends the bytes and cannot fail.
write_all(output, buf) == output \o buf

\* slice::contains
contains(bytes, b) == \E i \in 1..Len(bytes) : bytes[i] = b

(***************************************************************************)
(* Number formatting (ToString for i64, u64 and usize): decimal digits,    *)
(* most significant first, no leading zeros, '-' for a negative number.    *)
(***************************************************************************)
RECURSIVE Digits(_)
Digits(n) == IF n < 10 THEN <<48 + n>> ELSE Digits(n \div 10) \o <<48 + (n % 10)>>

to_string_i64(v) == IF v < 0 THEN <<45>> \o Digits(0 - v) ELSE Digits(v)

to_string_u64(v) == Digits(v)

(***************************************************************************)
(* str::as_bytes: the UTF-8 encoding of a text's code points.              *)
(***************************************************************************)
encode_utf8(c) ==
    IF c < 128 THEN <<c>>
    ELSE IF c < 2048 THEN <<192 + (c \div 64), 128 + (c % 64)>>
    ELSE IF c < 65536
      THEN <<224 + (c \div 4096), 128 + ((c \div 64) % 64), 128 + (c % 64)>>
      ELSE <<240 + (c \div 262144), 128 + ((c \div 4096) % 64),
             128 + ((c \div 64) % 64), 128 + (c % 64)>>

RECURSIVE as_bytes(_)
as_bytes(s) == IF s = <<>> THEN <<>> ELSE encode_utf8(Head(s)) \o as_bytes(Tail(s))

(***************************************************************************)
(* Values handed to the serializer.  Every value is a record               *)
(*   [t: shape tag, b: boolean, n: integer, s: text or bytes, kids: values]*)
(* so that any two values can be compared.                                 *)
(***************************************************************************)
Val(t, b, n, s, kids) == [t |-> t, b |-> b, n |-> n, s |-> s, kids |-> kids]

VBool(b) == Val("bool", b, 0, <<>>, <<>>)
\* An integer of the type t: "i8" .. "i64", "u8" .. "u64".
VInt(t, n) == Val(t, FALSE, n, <<>>, <<>>)
VChar(c) == Val("char", FALSE, c, <<>>, <<>>)
VStr(s) == Val("str", FALSE, 0, s, <<>>)
VBytes(s) == Val("bytes", FALSE, 0, s, <<>>)
VUnit == Val("unit", FALSE, 0, <<>>, <<>>)
VUnitStruct == Val("unit_struct", FALSE, 0, <<>>, <<>>)
VNewtypeStruct(v) == Val("newtype_struct", FALSE, 0, <<>>, <<v>>)
VTupleStruct(kids) == Val("tuple_struct", FALSE, 0, <<>>, kids)
VNone == Val("none", FALSE, 0, <<>>, <<>>)
VSome(v) == Val("some", FALSE, 0, <<>>, <<v>>)
VSeq(kids) == Val("seq", FALSE, 0, <<>>, kids)
VIter(kids) == Val("iter", FALSE, 0, <<>>, kids)
VTuple(kids) == Val("tuple", FALSE, 0, <<>>, kids)
VEntry(k, v) == Val("entry", FALSE, 0, <<>>, <<k, v>>)
VMap(entries) == Val("map", FALSE, 0, <<>>, entries)
VIterMap(entries) == Val("itermap", FALSE, 0, <<>>, entries)
VField(name, v) == Val("field", FALSE, 0, name, <<v>>)
VStruct(fields) == Val("struct", FALSE, 0, <<>>, fields)
VUnitVariant(name) == Val("unit_variant", FALSE, 0, name, <<>>)
VNewtypeVariant(name, v) == Val("newtype_variant", FALSE, 0, name, <<v>>)
VTupleVariant(name, kids) == Val("tuple_variant", FALSE, 0, name, kids)
VStructVariant(name, fields) == Val("struct_variant", FALSE, 0, name, fields)

(***************************************************************************)
(* Result<(), Error> of a serializer method, with the buffer it leaves.    *)
(***************************************************************************)
Ok(output) == [output |-> output, res |-> "Ok"]
Err(output, e) == [output |-> output, res |-> e]

\* The ? operator: the rest of the method, s, runs on Ok; an error is returned
\* at once.
Then(r, s) == IF r.res = "Ok" THEN s ELSE r


(***************************************************************************)
(* impl ser::Serializer for &mut Serializer.  Each method takes the        *)
(* output buffer of self and returns the buffer it leaves with its Result. *)
(* An Option<usize> is <<>> for None and <<n>> for Some(n).                *)
(***************************************************************************)
RECURSIVE Serialize(_, _)

serialize_i64(output, v) ==
    Ok(write_all(write_all(write_all(output, Colon), to_string_i64(v)), CRLF))

\* v as i64 of a bool: 1 for true, 0 for false.
serialize_bool(output, v) == serialize_i64(output, IF v THEN 1 ELSE 0)

\* v as i64 of a narrower signed integer keeps its value.
serialize_i8(output, v) == serialize_i64(output, v)

serialize_i16(output, v) == serialize_i64(output, v)

serialize_i32(output, v) == serialize_i64(output, v)

serialize_u64(output, v) ==
    Ok(write_all(write_all(write_all(output, Colon), to_string_u64(v)), CRLF))

\* serialize_bytes declaring one byte less than it writes.
serialize_bytes_short_len(output, v) ==
    Ok(write_all(write_all(write_all(write_all(write_all(output, Dollar),
         to_string_u64(IF Len(v) > 1 THEN Len(v) - 1 ELSE Len(v))), CRLF), v), CRLF))

\* v as u64 of a narrower unsigned integer keeps its value.
serialize_u8(output, v) == serialize_u64(output, v)

serialize_u16(output, v) == serialize_u64(output, v)

serialize_u32(output, v) == serialize_u64(output, v)

serialize_bytes(output, v) ==
    Ok(write_all(write_all(write_all(write_all(write_all(output, Dollar),
         to_string_u64(Len(v))), CRLF), v), CRLF))

\* serialize_str without the branch: every text as a simple string.
serialize_str_always_simple(output, v) ==
    Ok(write_all(write_all(write_all(output, Plus), as_bytes(v)), CRLF))

serialize_str(output, v) ==
    IF contains(as_bytes(v), 13) \/ contains(as_bytes(v), 10)
      THEN serialize_bytes(output, as_bytes(v))
      ELSE Ok(write_all(write_all(write_all(output, Plus), as_bytes(v)), CRLF))

\* v.to_string() of a char is the text of that one character.
serialize_char(output, v) == serialize_str(output, <<v>>)

\* format!("{}", value) is the text the caller's Display gives.
collect_str(output, text) == serialize_str(output, text)

serialize_unit(output) == Ok(write_all(output, NullBulk))

serialize_unit_struct(output) == serialize_unit(output)

serialize_newtype_struct(output, value) == Serialize(output, value)

serialize_unit_variant(output, variant) == serialize_str(output, variant)

serialize_seq(output, len) ==
    IF len = <<>> THEN Err(output, "LenNotKnown")
    ELSE Ok(write_all(write_all(write_all(output, Star), to_string_u64(len[1])), CRLF))

serialize_tuple(output, len) == serialize_seq(output, <<len>>)

serialize_tuple_struct(output, len) == serialize_seq(output, <<len>>)

\* serialize_map writing the '*' before it looks at the length.
serialize_map_writes_first(output, len) ==
    IF len = <<>> THEN Err(write_all(output, Star), "LenNotKnown")
    ELSE Ok(write_all(write_all(write_all(output, Star), to_string_u64(len[1])), CRLF))

serialize_map(output, len) ==
    IF len = <<>> THEN Err(output, "LenNotKnown")
    ELSE Ok(write_all(write_all(write_all(output, Star), to_string_u64(len[1])), CRLF))

serialize_struct(output, len) == serialize_map(output, <<len>>)

serialize_tuple_variant(output, variant, len) ==
    LET r1 == Ok(write_all(output, PairHeader))
        r2 == Then(r1, serialize_str(r1.output, variant))
    IN  Then(r2, serialize_seq(r2.output, <<len>>))

\* serialize_struct_variant without the enclosing pair.
serialize_struct_variant_no_pair(output, variant, len) ==
    LET r2 == serialize_str(output, variant)
    IN  Then(r2, serialize_seq(r2.output, <<len>>))

serialize_struct_variant(output, variant, len) ==
    LET r1 == Ok(write_all(output, PairHeader))
        r2 == Then(r1, serialize_str(r1.output, variant))
    IN  Then(r2, serialize_seq(r2.output, <<len>>))

serialize_newtype_variant(output, variant, value) ==
    LET r1 == Ok(write_all(output, PairHeader))
        r2 == Then(r1, serialize_str(r1.output, variant))
    IN  Then(r2, Serialize(r2.output, value))

serialize_none(output) == Serialize(output, VSeq(<<>>))

\* serialize_some writing the value without the enclosing array.
serialize_some_bare(output, value) == Serialize(output, value)

serialize_some(output, value) == Serialize(output, VSeq(<<value>>))

(***************************************************************************)
(* The compound traits: SerializeSeq, SerializeTuple, SerializeTupleVariant*)
(* SerializeMap, SerializeStruct and SerializeStructVariant.               *)
(***************************************************************************)
SerializeSeq_serialize_element(output, value) == Serialize(output, value)

SerializeTuple_serialize_element(output, value) == Serialize(output, value)

SerializeTupleStruct_serialize_field(output, value) == Serialize(output, value)

SerializeTupleVariant_serialize_field(output, value) == Serialize(output, value)

\* serialize_key writing the key.
SerializeMap_serialize_key_writes(output, key) == Serialize(output, key)

SerializeMap_serialize_key(output, key) == Ok(output)

SerializeMap_serialize_value(output, value) == Ok(output)

SerializeMap_serialize_entry(output, key, value) ==
    LET r1 == Ok(write_all(output, PairHeader))
        r2 == Then(r1, Serialize(r1.output, key))
    IN  Then(r2, Serialize(r2.output, value))

\* serialize_field writing the name and the value into the record's array.
SerializeStruct_serialize_field_flat(output, key, value) ==
    LET r2 == serialize_str(output, key)
    IN  Then(r2, Serialize(r2.output, value))

SerializeStruct_serialize_field(output, key, value) ==
    LET r1 == Ok(write_all(output, PairHeader))
        r2 == Then(r1, serialize_str(r1.output, key))
    IN  Then(r2, Serialize(r2.output, value))

SerializeStructVariant_serialize_field(output, key, value) ==
    LET r1 == Ok(write_all(output, PairHeader))
        r2 == Then(r1, serialize_str(r1.output, key))
    IN  Then(r2, Serialize(r2.output, value))

\* end rewriting the count of the array header at the start of the buffer.
end_backpatch(output) ==
    Ok(IF Len(output) >= 2 THEN [output EXCEPT ![2] = 48] ELSE output)

\* end of every compound trait: nothing is written.
end(output) == Ok(output)

\* The call of end that closes a compound, unless an element failed.
Finish(r) == Then(r, end(r.output))

(***************************************************************************)
(* The traversal of a value (its Serialize implementation) as it drives    *)
(* the serializer: one call per element, entry or field, stopping at the   *)
(* first error.                                                            *)
(***************************************************************************)
RECURSIVE each_element(_, _)
each_element(r, kids) ==
    IF r.res # "Ok" \/ kids = <<>> THEN r
    ELSE each_element(SerializeSeq_serialize_element(r.output, Head(kids)), Tail(kids))

RECURSIVE each_tuple_element(_, _)
each_tuple_element(r, kids) ==
    IF r.res # "Ok" \/ kids = <<>> THEN r
    ELSE each_tuple_element(SerializeTuple_serialize_element(r.output, Head(kids)), Tail(kids))

RECURSIVE each_struct_element(_, _)
each_struct_element(r, kids) ==
    IF r.res # "Ok" \/ kids = <<>> THEN r
    ELSE each_struct_element(SerializeTupleStruct_serialize_field(r.output, Head(kids)),
                             Tail(kids))

RECURSIVE each_variant_element(_, _)
each_variant_element(r, kids) ==
    IF r.res # "Ok" \/ kids = <<>> THEN r
    ELSE each_variant_element(SerializeTupleVariant_serialize_field(r.output, Head(kids)),
                              Tail(kids))

RECURSIVE each_entry(_, _)
each_entry(r, entries) ==
    IF r.res # "Ok" \/ entries = <<>> THEN r
    ELSE each_entry(SerializeMap_serialize_entry(r.output, Head(entries).kids[1],
                                                 Head(entries).kids[2]),
                    Tail(entries))

RECURSIVE each_field(_, _)
each_field(r, fields) ==
    IF r.res # "Ok" \/ fields = <<>> THEN r
    ELSE each_field(SerializeStruct_serialize_field(r.output, Head(fields).s,
                                                    Head(fields).kids[1]),
                    Tail(fields))

RECURSIVE each_variant_field(_, _)
each_variant_field(r, fields) ==
    IF r.res # "Ok" \/ fields = <<>> THEN r
    ELSE each_variant_field(SerializeStructVariant_serialize_field(r.output, Head(fields).s,
                                                                   Head(fields).kids[1]),
                            Tail(fields))

Serialize(output, v) ==
    CASE v.t = "bool" -> serialize_bool(output, v.b)
      [] v.t = "i8" -> serialize_i8(output, v.n)
      [] v.t = "i16" -> serialize_i16(output, v.n)
      [] v.t = "i32" -> serialize_i32(output, v.n)
      [] v.t = "i64" -> serialize_i64(output, v.n)
      [] v.t = "u8" -> serialize_u8(output, v.n)
      [] v.t = "u16" -> serialize_u16(output, v.n)
      [] v.t = "u32" -> serialize_u32(output, v.n)
      [] v.t = "u64" -> serialize_u64(output, v.n)
      [] v.t = "char" -> serialize_char(output, v.n)
      [] v.t = "str" -> serialize_str(output, v.s)
      [] v.t = "bytes" -> serialize_bytes(output, v.s)
      [] v.t = "unit" -> serialize_unit(output)
      [] v.t = "unit_struct" -> serialize_unit_struct(output)
      [] v.t = "newtype_struct" -> serialize_newtype_struct(output, v.kids[1])
      [] v.t = "tuple_struct" ->
           Finish(each_struct_element(serialize_tuple_struct(output, Len(v.kids)), v.kids))
      [] v.t = "none" -> serialize_none(output)
      [] v.t = "some" -> serialize_some(output, v.kids[1])
      [] v.t = "seq" ->
           Finish(each_element(serialize_seq(output, <<Len(v.kids)>>), v.kids))
      [] v.t = "iter" ->
           Finish(each_element(serialize_seq(output, <<>>), v.kids))
      [] v.t = "tuple" ->
           Finish(each_tuple_element(serialize_tuple(output, Len(v.kids)), v.kids))
      [] v.t = "map" ->
           Finish(each_entry(serialize_map(output, <<Len(v.kids)>>), v.kids))
      [] v.t = "itermap" ->
           Finish(each_entry(serialize_map(output, <<>>), v.kids))
      [] v.t = "struct" ->
           Finish(each_field(serialize_struct(output, Len(v.kids)), v.kids))
      [] v.t = "unit_variant" -> serialize_unit_variant(output, v.s)
      [] v.t = "newtype_variant" -> serialize_newtype_variant(output, v.s, v.kids[1])
      [] v.t = "tuple_variant" ->
           Finish(each_variant_element(serialize_tuple_variant(output, v.s, Len(v.kids)),
                                       v.kids))
      [] v.t = "struct_variant" ->
           Finish(each_variant_field(serialize_struct_variant(output, v.s, Len(v.kids)),
                                     v.kids))

(***************************************************************************)
(* String::from_utf8: the validity of a byte buffer as UTF-8.              *)
(***************************************************************************)
IsCont(b) == b >= 128 /\ b <= 191

RECURSIVE utf8_valid_from(_, _)
utf8_valid_from(buf, i) ==
    IF i > Len(buf) THEN TRUE
    ELSE LET b == buf[i]
             has(k) == i + k <= Len(buf)
         IN  IF b < 128 THEN utf8_valid_from(buf, i + 1)
             ELSE IF b >= 194 /\ b <= 223
               THEN has(1) /\ IsCont(buf[i + 1]) /\ utf8_valid_from(buf, i + 2)
             ELSE IF b >= 224 /\ b <= 239
               THEN /\ has(2)
                    /\ IsCont(buf[i + 1])
                    /\ (b = 224 => buf[i + 1] >= 160)
                    /\ (b = 237 => buf[i + 1] <= 159)
                    /\ IsCont(buf[i + 2])
                    /\ utf8_valid_from(buf, i + 3)
             ELSE IF b >= 240 /\ b <= 244
               THEN /\ has(3)
                    /\ IsCont(buf[i + 1])
                    /\ (b = 240 => buf[i + 1] >= 144)
                    /\ (b = 244 => buf[i + 1] <= 143)
                    /\ IsCont(buf[i + 2])
                    /\ IsCont(buf[i + 3])
                    /\ utf8_valid_from(buf, i + 4)
             ELSE FALSE

from_utf8_ok(buf) == utf8_valid_from(buf, 1)

(***************************************************************************)
(* to_string: a fresh Serializer, the traversal, then String::from_utf8.   *)
(* The result is [res, string]: the string is empty unless res is "Ok".    *)
(***************************************************************************)
\* to_string returning the buffer without String::from_utf8.
to_string_unchecked(value) ==
    LET r == Serialize(<<>>, value)
    IN  IF r.res # "Ok" THEN [res |-> r.res, string |-> <<>>]
        ELSE [res |-> "Ok", string |-> r.output]

to_string(value) ==
    LET r == Serialize(<<>>, value)
    IN  IF r.res # "Ok" THEN [res |-> r.res, string |-> <<>>]
        ELSE IF from_utf8_ok(r.output) THEN [res |-> "Ok", string |-> r.output]
        ELSE [res |-> "Utf8", string |-> <<>>]


(***************************************************************************)
(* The decoder (from_str).  First the wire grammar: one frame at a         *)
(* position of the input, as a tree                                        *)
(*   [k: "simple" | "int" | "bulk" | "null" | "array", n, s, kids].        *)
(* A parse result is [ok, next, frame]; next is the position after the     *)
(* frame.                                                                  *)
(***************************************************************************)
Frame(k, n, s, kids) == [k |-> k, n |-> n, s |-> s, kids |-> kids]

ParseFail == [ok |-> FALSE, next |-> 0, frame |-> Frame("none", 0, <<>>, <<>>)]

ParseOk(next, frame) == [ok |-> TRUE, next |-> next, frame |-> frame]

\* The position of the first "\r\n" at or after i, or 0.
RECURSIVE find_crlf(_, _)
find_crlf(buf, i) ==
    IF i + 1 > Len(buf) THEN 0
    ELSE IF buf[i] = 13 /\ buf[i + 1] = 10 THEN i
    ELSE find_crlf(buf, i + 1)

IsDigits(bytes) ==
    /\ bytes # <<>>
    /\ \A i \in 1..Len(bytes) : bytes[i] >= 48 /\ bytes[i] <= 57

RECURSIVE parse_digits(_)
parse_digits(bytes) ==
    IF bytes = <<>> THEN 0
    ELSE 10 * parse_digits(SubSeq(bytes, 1, Len(bytes) - 1)) + (bytes[Len(bytes)] - 48)

IsInteger(bytes) ==
    IF bytes # <<>> /\ bytes[1] = 45 THEN IsDigits(Tail(bytes)) ELSE IsDigits(bytes)

parse_integer(bytes) ==
    IF bytes[1] = 45 THEN 0 - parse_digits(Tail(bytes)) ELSE parse_digits(bytes)

RECURSIVE parse_frame(_, _)
RECURSIVE parse_frames(_, _, _)

parse_frame(buf, pos) ==
    IF pos > Len(buf) THEN ParseFail
    ELSE LET tag == buf[pos]
             e == find_crlf(buf, pos + 1)
             line == SubSeq(buf, pos + 1, e - 1)
         IN  IF e = 0 THEN ParseFail
             ELSE IF tag = 43 THEN ParseOk(e + 2, Frame("simple", 0, line, <<>>))
             ELSE IF tag = 58
               THEN IF IsInteger(line)
                      THEN ParseOk(e + 2, Frame("int", parse_integer(line), <<>>, <<>>))
                      ELSE ParseFail
             ELSE IF tag = 36
               THEN IF line = <<45, 49>> THEN ParseOk(e + 2, Frame("null", 0, <<>>, <<>>))
                    ELSE IF ~IsDigits(line) THEN ParseFail
                    ELSE LET k == parse_digits(line)
                             last == e + 1 + k
                         IN  IF last + 2 > Len(buf) THEN ParseFail
                             ELSE IF buf[last + 1] # 13 \/ buf[last + 2] # 10 THEN ParseFail
                             ELSE ParseOk(last + 3,
                                          Frame("bulk", 0, SubSeq(buf, e + 2, last), <<>>))
             ELSE IF tag = 42
               THEN IF ~IsDigits(line) THEN ParseFail
                    ELSE LET r == parse_frames(buf, e + 2, parse_digits(line))
                         IN  IF r.ok THEN ParseOk(r.next, Frame("array", 0, <<>>, r.frames))
                             ELSE ParseFail
             ELSE ParseFail

\* count frames in a row: [ok, next, frames]
parse_frames(buf, pos, count) ==
    IF count = 0 THEN [ok |-> TRUE, next |-> pos, frames |-> <<>>]
    ELSE LET f == parse_frame(buf, pos)
         IN  IF ~f.ok THEN [ok |-> FALSE, next |-> 0, frames |-> <<>>]
             ELSE LET r == parse_frames(buf, f.next, count - 1)
                  IN  IF r.ok
                        THEN [ok |-> TRUE, next |-> r.next, frames |-> <<f.frame>> \o r.frames]
                        ELSE [ok |-> FALSE, next |-> 0, frames |-> <<>>]

(***************************************************************************)
(* str::from_utf8 on a valid buffer: the code points of the text.          *)
(***************************************************************************)
RECURSIVE decode_utf8(_)
decode_utf8(bytes) ==
    IF bytes = <<>> THEN <<>>
    ELSE LET b == bytes[1]
         IN  IF b < 128 THEN <<b>> \o decode_utf8(SubSeq(bytes, 2, Len(bytes)))
             ELSE IF b < 224
               THEN <<(b - 192) * 64 + (bytes[2] - 128)>>
                    \o decode_utf8(SubSeq(bytes, 3, Len(bytes)))
             ELSE IF b < 240
               THEN <<(b - 224) * 4096 + (bytes[2] - 128) * 64 + (bytes[3] - 128)>>
                    \o decode_utf8(SubSeq(bytes, 4, Len(bytes)))
             ELSE <<(b - 240) * 262144 + (bytes[2] - 128) * 4096
                     + (bytes[3] - 128) * 64 + (bytes[4] - 128)>>
                  \o decode_utf8(SubSeq(bytes, 5, Len(bytes)))

(***************************************************************************)
(* Target shapes requested from the decoder:                               *)
(*   [t: shape tag, s: name, kids: the shapes inside].                     *)
(***************************************************************************)
Shape(t, s, kids) == [t |-> t, s |-> s, kids |-> kids]

\* A shape with nothing inside: "bool", "i8" .. "u64", "char", "str", "bytes",
\* "unit", "unit_struct".
Scalar(t) == Shape(t, <<>>, <<>>)

\* A shape around others: "option", "seq", "iter", "newtype_struct", "tuple",
\* "tuple_struct", "map", "itermap", "struct", "enum".
Of(t, kids) == Shape(t, <<>>, kids)

\* A named part: "field", "unit_variant", "newtype_variant", "tuple_variant",
\* "struct_variant".
Named(t, name, kids) == Shape(t, name, kids)

(***************************************************************************)
(* Decoding a frame as a requested shape: [ok, value].                     *)
(***************************************************************************)
DecodeFail == [ok |-> FALSE, value |-> VUnit]

\* Whether a number is in the range of the integer type requested; a number
\* outside it is an overflow.  Every number of the model fits 32 bits and more.
Fits(t, n) ==
    CASE t = "i8" -> n >= 0 - 128 /\ n <= 127
      [] t = "u8" -> n >= 0 /\ n <= 255
      [] t = "i16" -> n >= 0 - 32768 /\ n <= 32767
      [] t = "u16" -> n >= 0 /\ n <= 65535
      [] t \in {"i32", "i64"} -> TRUE
      [] t \in {"u32", "u64"} -> n >= 0

DecodeOk(v) == [ok |-> TRUE, value |-> v]

RECURSIVE decode(_, _)
RECURSIVE decode_all(_, _)
RECURSIVE decode_tuple(_, _)
RECURSIVE decode_entries(_, _)
RECURSIVE decode_fields(_, _)

\* every frame as the same shape: [ok, values]
decode_all(shape, frames) ==
    IF frames = <<>> THEN [ok |-> TRUE, values |-> <<>>]
    ELSE LET d == decode(shape, Head(frames))
             r == decode_all(shape, Tail(frames))
         IN  IF d.ok /\ r.ok THEN [ok |-> TRUE, values |-> <<d.value>> \o r.values]
             ELSE [ok |-> FALSE, values |-> <<>>]

\* the i-th frame as the i-th shape; the counts must agree
decode_tuple(shapes, frames) ==
    IF Len(shapes) # Len(frames) THEN [ok |-> FALSE, values |-> <<>>]
    ELSE IF frames = <<>> THEN [ok |-> TRUE, values |-> <<>>]
    ELSE LET d == decode(Head(shapes), Head(frames))
             r == decode_tuple(Tail(shapes), Tail(frames))
         IN  IF d.ok /\ r.ok THEN [ok |-> TRUE, values |-> <<d.value>> \o r.values]
             ELSE [ok |-> FALSE, values |-> <<>>]

\* every frame as a two-element array [key, value]
decode_entries(shape, frames) ==
    IF frames = <<>> THEN [ok |-> TRUE, values |-> <<>>]
    ELSE LET f == Head(frames)
         IN  IF f.k # "array" \/ Len(f.kids) # 2 THEN [ok |-> FALSE, values |-> <<>>]
             ELSE LET k == decode(shape.kids[1], f.kids[1])
                      v == decode(shape.kids[2], f.kids[2])
                      r == decode_entries(shape, Tail(frames))
                  IN  IF k.ok /\ v.ok /\ r.ok
                        THEN [ok |-> TRUE,
                              values |-> <<VEntry(k.value, v.value)>> \o r.values]
                        ELSE [ok |-> FALSE, values |-> <<>>]

\* the i-th frame as the two-element array [name of the i-th field, its value]
decode_fields(fields, frames) ==
    IF Len(fields) # Len(frames) THEN [ok |-> FALSE, values |-> <<>>]
    ELSE IF frames = <<>> THEN [ok |-> TRUE, values |-> <<>>]
    ELSE LET f == Head(frames)
             fld == Head(fields)
         IN  IF f.k # "array" \/ Len(f.kids) # 2 THEN [ok |-> FALSE, values |-> <<>>]
             ELSE LET name == decode(Scalar("str"), f.kids[1])
                      v == decode(fld.kids[1], f.kids[2])
                      r == decode_fields(Tail(fields), Tail(frames))
                  IN  IF name.ok /\ name.value.s = fld.s /\ v.ok /\ r.ok
                        THEN [ok |-> TRUE, values |-> <<VField(fld.s, v.value)>> \o r.values]
                        ELSE [ok |-> FALSE, values |-> <<>>]

\* the payload of a variant, by the kind of the variant
decode_payload(variant, frame) ==
    IF variant.t = "newtype_variant"
      THEN LET d == decode(variant.kids[1], frame)
           IN  IF d.ok THEN DecodeOk(VNewtypeVariant(variant.s, d.value)) ELSE DecodeFail
    ELSE IF variant.t = "tuple_variant"
      THEN IF frame.k # "array" THEN DecodeFail
           ELSE LET r == decode_tuple(variant.kids, frame.kids)
                IN  IF r.ok THEN DecodeOk(VTupleVariant(variant.s, r.values)) ELSE DecodeFail
    ELSE IF variant.t = "struct_variant"
      THEN IF frame.k # "array" THEN DecodeFail
           ELSE LET r == decode_fields(variant.kids, frame.kids)
                IN  IF r.ok THEN DecodeOk(VStructVariant(variant.s, r.values)) ELSE DecodeFail
    ELSE DecodeFail

decode(shape, frame) ==
    CASE shape.t = "bool" ->
           IF frame.k = "int" THEN DecodeOk(VBool(frame.n # 0)) ELSE DecodeFail
      [] shape.t \in {"i8", "i16", "i32", "i64"} ->
           IF frame.k = "int" /\ Fits(shape.t, frame.n)
             THEN DecodeOk(VInt(shape.t, frame.n))
             ELSE DecodeFail
      [] shape.t \in {"u8", "u16", "u32", "u64"} ->
           IF frame.k = "int" /\ Fits(shape.t, frame.n)
             THEN DecodeOk(VInt(shape.t, frame.n))
             ELSE DecodeFail
      [] shape.t = "char" ->
           IF frame.k \in {"simple", "bulk"} /\ from_utf8_ok(frame.s)
              /\ Len(decode_utf8(frame.s)) = 1
             THEN DecodeOk(VChar(decode_utf8(frame.s)[1]))
             ELSE DecodeFail
      [] shape.t = "str" ->
           IF frame.k \in {"simple", "bulk"} /\ from_utf8_ok(frame.s)
             THEN DecodeOk(VStr(decode_utf8(frame.s)))
             ELSE DecodeFail
      [] shape.t = "bytes" ->
           IF frame.k \in {"simple", "bulk"} THEN DecodeOk(VBytes(frame.s)) ELSE DecodeFail
      [] shape.t = "unit" ->
           IF frame.k = "null" THEN DecodeOk(VUnit) ELSE DecodeFail
      [] shape.t = "unit_struct" ->
           IF frame.k = "null" THEN DecodeOk(VUnitStruct) ELSE DecodeFail
      [] shape.t = "newtype_struct" ->
           LET d == decode(shape.kids[1], frame)
           IN  IF d.ok THEN DecodeOk(VNewtypeStruct(d.value)) ELSE DecodeFail
      [] shape.t = "tuple_struct" ->
           IF frame.k # "array" THEN DecodeFail
           ELSE LET r == decode_tuple(shape.kids, frame.kids)
                IN  IF r.ok THEN DecodeOk(VTupleStruct(r.values)) ELSE DecodeFail
      [] shape.t = "option" ->
           IF frame.k # "array" THEN DecodeFail
           ELSE IF Len(frame.kids) = 0 THEN DecodeOk(VNone)
           ELSE IF Len(frame.kids) = 1
             THEN LET d == decode(shape.kids[1], frame.kids[1])
                  IN  IF d.ok THEN DecodeOk(VSome(d.value)) ELSE DecodeFail
           ELSE DecodeFail
      [] shape.t \in {"seq", "iter"} ->
           IF frame.k # "array" THEN DecodeFail
           ELSE LET r == decode_all(shape.kids[1], frame.kids)
                IN  IF r.ok THEN DecodeOk(VSeq(r.values)) ELSE DecodeFail
      [] shape.t = "tuple" ->
           IF frame.k # "array" THEN DecodeFail
           ELSE LET r == decode_tuple(shape.kids, frame.kids)
                IN  IF r.ok THEN DecodeOk(VTuple(r.values)) ELSE DecodeFail
      [] shape.t \in {"map", "itermap"} ->
           IF frame.k # "array" THEN DecodeFail
           ELSE LET r == decode_entries(shape, frame.kids)
                IN  IF r.ok THEN DecodeOk(VMap(r.values)) ELSE DecodeFail
      [] shape.t = "struct" ->
           IF frame.k # "array" THEN DecodeFail
           ELSE LET r == decode_fields(shape.kids, frame.kids)
                IN  IF r.ok THEN DecodeOk(VStruct(r.values)) ELSE DecodeFail
      [] shape.t = "enum" ->
           IF frame.k = "simple"
             THEN IF \E i \in 1..Len(shape.kids) :
                        shape.kids[i].t = "unit_variant" /\ as_bytes(shape.kids[i].s) = frame.s
                    THEN DecodeOk(VUnitVariant(decode_utf8(frame.s)))
                    ELSE DecodeFail
           ELSE IF frame.k = "array" /\ Len(frame.kids) = 2
                   /\ frame.kids[1].k \in {"simple", "bulk"}
             THEN LET name == frame.kids[1].s
                      m == {i \in 1..Len(shape.kids) :
                              /\ shape.kids[i].t # "unit_variant"
                              /\ as_bytes(shape.kids[i].s) = name}
                  IN  IF m = {} THEN DecodeFail
                      ELSE decode_payload(shape.kids[CHOOSE i \in m : TRUE], frame.kids[2])
           ELSE DecodeFail

\* from_str: one frame tree from the start of the input, as the shape.
from_str(shape, input) ==
    LET p == parse_frame(input, 1)
    IN  IF p.ok THEN decode(shape, p.frame) ELSE DecodeFail


(***************************************************************************)
(* The values and shapes the model draws its inputs from.                  *)
(***************************************************************************)
\* 'a', 'b', '\r', '\n' and U+00E9 (two bytes in UTF-8)
Chars == {97, 98, 13, 10, 233}

\* 'a', '\r', 0xFF (never valid in UTF-8), and 0xC3 0xA9 (valid only as a pair)
ByteVals == {97, 13, 255, 195, 169}

SeqsUpTo(S, n) == UNION {[1..k -> S] : k \in 0..n}

NameInt == <<105, 110, 116>>
NameSeq == <<115, 101, 113>>
NameA == <<97>>
NameUnit == <<85, 110, 105, 116>>
NameNewtype == <<78, 101, 119, 116, 121, 112, 101>>
NameTuple == <<84, 117, 112, 108, 101>>
NameStruct == <<83, 116, 114, 117, 99, 116>>

\* struct Test { int: u32, seq: Vec<&'static str> }
TestShape ==
    Of("struct", <<Named("field", NameInt, <<Scalar("u32")>>),
                   Named("field", NameSeq, <<Of("seq", <<Scalar("str")>>)>>)>>)

\* struct Flags { a: bool, int: Option<i64>, seq: () }
FlagsShape ==
    Of("struct", <<Named("field", NameA, <<Scalar("bool")>>),
                   Named("field", NameInt, <<Of("option", <<Scalar("i64")>>)>>),
                   Named("field", NameSeq, <<Scalar("unit")>>)>>)

\* enum E { Unit, Newtype(u32), Tuple(u32, u32), Struct { a: u32 } }
EShape ==
    Of("enum", <<Named("unit_variant", NameUnit, <<>>),
                 Named("newtype_variant", NameNewtype, <<Scalar("u32")>>),
                 Named("tuple_variant", NameTuple, <<Scalar("u32"), Scalar("u32")>>),
                 Named("struct_variant", NameStruct,
                       <<Named("field", NameA, <<Scalar("u32")>>)>>)>>)

Shapes ==
    {Scalar("bool"), Scalar("i8"), Scalar("i16"), Scalar("i32"), Scalar("i64"),
     Scalar("u8"), Scalar("u16"), Scalar("u32"), Scalar("u64"), Scalar("char"),
     Scalar("str"), Scalar("bytes"), Scalar("unit"), Scalar("unit_struct"),
     Of("newtype_struct", <<Scalar("u8")>>),
     Of("newtype_struct", <<Of("seq", <<Scalar("char")>>)>>),
     Of("tuple_struct", <<Scalar("i16"), Scalar("char")>>),
     Of("option", <<Scalar("i64")>>), Of("option", <<Scalar("unit")>>),
     Of("option", <<Scalar("bytes")>>), Of("option", <<Of("option", <<Scalar("str")>>)>>),
     Of("seq", <<Scalar("i64")>>), Of("seq", <<Scalar("str")>>), Of("seq", <<Scalar("bytes")>>),
     Of("seq", <<Of("seq", <<Scalar("bool")>>)>>), Of("seq", <<Of("iter", <<Scalar("bool")>>)>>),
     Of("iter", <<Scalar("i64")>>), Of("itermap", <<Scalar("bool"), Scalar("unit")>>),
     Of("tuple", <<Scalar("i64"), Scalar("str")>>), Of("map", <<Scalar("str"), Scalar("i64")>>),
     Of("map", <<Scalar("bytes"), Of("option", <<Scalar("bool")>>)>>),
     TestShape, FlagsShape, Of("struct", <<>>), EShape, Of("option", <<EShape>>)}

RECURSIVE Inhabitants(_, _)
RECURSIVE Products(_)

\* one inhabitant per shape of the list
Products(shapes) ==
    IF shapes = <<>> THEN {<<>>}
    ELSE {<<h>> \o t : h \in Inhabitants(Head(shapes), TRUE), t \in Products(Tail(shapes))}

\* The values of a shape; a value inside another is drawn from a smaller set.
Inhabitants(shape, nested) ==
    CASE shape.t = "bool" -> {VBool(TRUE), VBool(FALSE)}
      [] shape.t \in {"i8", "i16", "i32", "i64"} ->
           {VInt(shape.t, n) :
              n \in IF nested THEN {0 - MaxInt, 0, 1, 5} ELSE (0 - MaxInt)..MaxInt}
      [] shape.t \in {"u8", "u16", "u32", "u64"} ->
           {VInt(shape.t, n) :
              n \in IF nested THEN {0, 1, 2, MaxInt} ELSE 0..MaxInt}
      [] shape.t = "char" -> {VChar(c) : c \in Chars}
      [] shape.t = "str" ->
           {VStr(s) : s \in SeqsUpTo(Chars, IF nested THEN 1 ELSE MaxStrLen)}
      [] shape.t = "bytes" ->
           {VBytes(s) : s \in SeqsUpTo(ByteVals, IF nested THEN 1 ELSE MaxBytesLen)}
      [] shape.t = "unit" -> {VUnit}
      [] shape.t = "unit_struct" -> {VUnitStruct}
      [] shape.t = "newtype_struct" ->
           {VNewtypeStruct(v) : v \in Inhabitants(shape.kids[1], TRUE)}
      [] shape.t = "tuple_struct" -> {VTupleStruct(k) : k \in Products(shape.kids)}
      [] shape.t = "option" ->
           {VNone} \cup {VSome(v) : v \in Inhabitants(shape.kids[1], TRUE)}
      [] shape.t = "seq" ->
           {VSeq(k) : k \in SeqsUpTo(Inhabitants(shape.kids[1], TRUE), MaxSeqLen)}
      [] shape.t = "iter" ->
           {VIter(k) : k \in SeqsUpTo(Inhabitants(shape.kids[1], TRUE), MaxSeqLen)}
      [] shape.t = "tuple" -> {VTuple(k) : k \in Products(shape.kids)}
      [] shape.t \in {"map", "itermap"} ->
           LET E == {VEntry(k, v) : k \in Inhabitants(shape.kids[1], TRUE),
                                    v \in Inhabitants(shape.kids[2], TRUE)}
               L == {es \in SeqsUpTo(E, MaxSeqLen) :
                       \A i, j \in 1..Len(es) : i # j => es[i].kids[1] # es[j].kids[1]}
           IN  IF shape.t = "map" THEN {VMap(es) : es \in L} ELSE {VIterMap(es) : es \in L}
      [] shape.t = "field" ->
           {VField(shape.s, v) : v \in Inhabitants(shape.kids[1], TRUE)}
      [] shape.t = "struct" -> {VStruct(k) : k \in Products(shape.kids)}
      [] shape.t = "enum" ->
           UNION {Inhabitants(shape.kids[i], TRUE) : i \in 1..Len(shape.kids)}
      [] shape.t = "unit_variant" -> {VUnitVariant(shape.s)}
      [] shape.t = "newtype_variant" ->
           {VNewtypeVariant(shape.s, v) : v \in Inhabitants(shape.kids[1], TRUE)}
      [] shape.t = "tuple_variant" -> {VTupleVariant(shape.s, k) : k \in Products(shape.kids)}
      [] shape.t = "struct_variant" ->
           {VStructVariant(shape.s, k) : k \in Products(shape.kids)}

(***************************************************************************)
(* State.                                                                  *)
(*   output: the buffer of a Serializer driven method by method;           *)
(*   stack: the compounds its caller has open, innermost last;             *)
(*   nested: how many of them were opened inside another so far;           *)
(*   res, op, args, before: the Result of the last method called, its      *)
(*   name, its arguments, and the buffer it started from;                  *)
(*   shape, value, pc, ret, decoded: a call of to_string and of from_str.  *)
(***************************************************************************)
VARIABLES output, stack, nested, res, op, args, before, shape, value, pc, ret, decoded

vars == <<output, stack, nested, res, op, args, before, shape, value, pc, ret, decoded>>

serVars == <<output, stack, nested, res, op, args, before>>

callVars == <<shape, value, pc, ret, decoded>>

NoRet == [res |-> "", string |-> <<>>]

\* Serializer { output: Vec::new() }
InitSerializer ==
    /\ output = <<>>
    /\ stack = <<>>
    /\ nested = 0
    /\ res = "Ok"
    /\ op = "new"
    /\ args = <<>>
    /\ before = <<>>

InitCall ==
    /\ shape = Scalar("unit")
    /\ value = VUnit
    /\ pc = "idle"
    /\ ret = NoRet
    /\ decoded = DecodeFail

(***************************************************************************)
(* SpecToString: to_string on a value, then from_str on what it returned.  *)
(***************************************************************************)
InitToString ==
    /\ InitSerializer
    /\ shape \in Shapes
    /\ value \in Inhabitants(shape, FALSE)
    /\ pc = "start"
    /\ ret = NoRet
    /\ decoded = DecodeFail

\* The call builds its own Serializer, whose buffer and status after the
\* traversal are kept in output and res.
CallToString ==
    /\ pc = "start"
    /\ ret' = to_string(value)
    /\ pc' = "encoded"
    /\ output' = Serialize(<<>>, value).output
    /\ res' = Serialize(<<>>, value).res
    /\ op' = "to_string"
    /\ args' = <<value>>
    /\ before' = <<>>
    /\ UNCHANGED <<stack, nested, shape, value, decoded>>

CallFromStr ==
    /\ pc = "encoded"
    /\ ret.res = "Ok"
    /\ decoded' = from_str(shape, ret.string)
    /\ pc' = "decoded"
    /\ UNCHANGED <<shape, value, ret>>
    /\ UNCHANGED serVars

NextToString == CallToString \/ CallFromStr

SpecToString == InitToString /\ [][NextToString]_vars


(***************************************************************************)
(* Properties of to_string and from_str, under SpecToString.               *)
(***************************************************************************)
Called == pc \in {"encoded", "decoded"}

\* The encoding of a value on its own.
Enc(v) == Serialize(<<>>, v).output

ArrayHeader(n) == Star \o Digits(n) \o CRLF

SimpleString(bytes) == Plus \o bytes \o CRLF

RECURSIVE Concat(_)
Concat(seqs) == IF seqs = <<>> THEN <<>> ELSE Head(seqs) \o Concat(Tail(seqs))

\* The number of bytes of a text in UTF-8.
RECURSIVE ByteLen(_)
ByteLen(s) ==
    IF s = <<>> THEN 0
    ELSE (IF Head(s) < 128 THEN 1 ELSE IF Head(s) < 2048 THEN 2
          ELSE IF Head(s) < 65536 THEN 3 ELSE 4) + ByteLen(Tail(s))

HasLineBreak(s) == \E i \in 1..Len(s) : s[i] \in {13, 10}

\* C1 as stated: for every value of a supported shape, to_string succeeds and
\* decoding its output as the shape of the value returns the value.
C1_RoundTripEveryValue ==
    /\ (Called => ret.res = "Ok")
    /\ (pc = "decoded" => decoded.ok /\ decoded.value = value)

\* C1 as amended: whenever to_string succeeds on a value, decoding its output
\* as the shape of the value succeeds and returns a value equal to it.
C1_RoundTripWhenEncoded ==
    pc = "decoded" => decoded.ok /\ decoded.value = value

C1_Witness ==
    /\ pc = "decoded"
    /\ value.t = "struct"
    /\ Len(value.kids) = 2
    /\ Len(value.kids[2].kids[1].kids) = 2
    /\ decoded.value = value

\* C4: a text without '\r' and '\n' is written as the simple string of its
\* exact bytes; any other text as a bulk string whose declared length is the
\* number of bytes of the text.
C4_TextBranching ==
    (Called /\ value.t = "str") =>
        /\ res = "Ok"
        /\ IF HasLineBreak(value.s)
             THEN output = Dollar \o Digits(ByteLen(value.s)) \o CRLF
                             \o as_bytes(value.s) \o CRLF
             ELSE output = Plus \o as_bytes(value.s) \o CRLF
        /\ (output[1] = 43) = ~HasLineBreak(value.s)
        /\ (output[1] = 36) = HasLineBreak(value.s)

C4_Witness ==
    /\ Called
    /\ value = VStr(<<233, 10>>)
    /\ output = <<36, 51, 13, 10, 195, 169, 10, 13, 10>>

\* C5: a record of n fields is the array header of count n followed, field by
\* field in declaration order, by "*2\r\n", the field name as a simple string
\* and the encoding of the field value.
C5_RecordEncoding ==
    (Called /\ value.t = "struct") =>
        /\ res = "Ok"
        /\ output = ArrayHeader(Len(value.kids))
                      \o Concat([i \in 1..Len(value.kids) |->
                                   PairHeader \o SimpleString(value.kids[i].s)
                                     \o Enc(value.kids[i].kids[1])])
        /\ (value = VStruct(<<VField(NameInt, VInt("u32", 1)),
                              VField(NameSeq, VSeq(<<VStr(<<97>>), VStr(<<98>>)>>))>>)
              => ret.string = <<42, 50, 13, 10, 42, 50, 13, 10, 43, 105, 110, 116, 13, 10,
                                58, 49, 13, 10, 42, 50, 13, 10, 43, 115, 101, 113, 13, 10,
                                42, 50, 13, 10, 43, 97, 13, 10, 43, 98, 13, 10>>)

C5_Witness ==
    /\ Called
    /\ value = VStruct(<<VField(NameInt, VInt("u32", 1)),
                         VField(NameSeq, VSeq(<<VStr(<<97>>), VStr(<<98>>)>>))>>)
    /\ ret.res = "Ok"

\* C6: a unit variant is the simple string of its name; a newtype, tuple or
\* struct variant is "*2\r\n", the name as a simple string, and the encoding
\* of the inner value, of the tuple of its fields, or of the record of its
\* fields.
C6_VariantEncoding ==
    Called =>
        /\ (value.t = "unit_variant" => output = SimpleString(value.s))
        /\ (value.t = "newtype_variant" =>
              output = PairHeader \o SimpleString(value.s) \o Enc(value.kids[1]))
        /\ (value.t = "tuple_variant" =>
              output = PairHeader \o SimpleString(value.s) \o Enc(VTuple(value.kids)))
        /\ (value.t = "struct_variant" =>
              output = PairHeader \o SimpleString(value.s) \o Enc(VStruct(value.kids)))
        /\ (value = VUnitVariant(NameUnit) => ret.string = <<43, 85, 110, 105, 116, 13, 10>>)
        /\ (value = VTupleVariant(NameTuple, <<VInt("u32", 1), VInt("u32", 2)>>) =>
              ret.string = <<42, 50, 13, 10, 43, 84, 117, 112, 108, 101, 13, 10,
                             42, 50, 13, 10, 58, 49, 13, 10, 58, 50, 13, 10>>)
        /\ (value = VStructVariant(NameStruct, <<VField(NameA, VInt("u32", 1))>>) =>
              ret.string = <<42, 50, 13, 10, 43, 83, 116, 114, 117, 99, 116, 13, 10,
                             42, 49, 13, 10, 42, 50, 13, 10, 43, 97, 13, 10, 58, 49, 13, 10>>)

C6_Witness ==
    /\ Called
    /\ value = VStructVariant(NameStruct, <<VField(NameA, VInt("u32", 1))>>)
    /\ ret.res = "Ok"

\* C7: an absent optional is exactly "*0\r\n"; a present optional is "*1\r\n"
\* followed by the encoding of the value inside, whatever its shape.
C7_OptionalEncoding ==
    Called =>
        /\ (value.t = "none" => output = <<42, 48, 13, 10>> /\ ret.string = output)
        /\ (value.t = "some" => output = <<42, 49, 13, 10>> \o Enc(value.kids[1]))
        /\ (value = VSome(VInt("i64", 5)) => ret.string = <<42, 49, 13, 10, 58, 53, 13, 10>>)

C7_Witness ==
    /\ Called
    /\ value = VSome(VSome(VStr(<<13>>)))
    /\ ret.res = "Ok"

\* C9: to_string returns the whole buffer or an error and no bytes: the error
\* of the traversal if it failed, Utf8 if the buffer is not UTF-8.
C9_AllOrError ==
    Called =>
        /\ (res # "Ok" => ret.res = res /\ ret.string = <<>>)
        /\ (ret.res = "Ok" => res = "Ok" /\ ret.string = output
                              /\ parse_frame(ret.string, 1).ok
                              /\ parse_frame(ret.string, 1).next = Len(ret.string) + 1)
        /\ (ret.res # "Ok" => ret.string = <<>>)
        /\ ((res = "Ok" /\ \E i \in 1..Len(output) : output[i] = 255) => ret.res = "Utf8")
        /\ ((res = "Ok" /\ \A i \in 1..Len(output) : output[i] < 128) => ret.res = "Ok")
        /\ (value.t \in {"iter", "itermap"} => ret.res = "LenNotKnown")

C9_Witness ==
    /\ Called
    /\ value = VBytes(<<97, 255>>)
    /\ ret.res = "Utf8"
    /\ ret.string = <<>>
    /\ output # <<>>


(***************************************************************************)
(* Spec: a Serializer driven method by method by the traversal of a value. *)
(*                                                                         *)
(* A compound the caller has open is a record                              *)
(*   [kind, name, len, done, key, start, items]:                           *)
(* the trait it was opened as, its variant name, the count it declared,    *)
(* the elements, entries or fields supplied so far, whether a key waits    *)
(* for its value, the length of the buffer when it was opened, and the     *)
(* values supplied, in order.  The caller supplies as many as it declared  *)
(* and then calls end.                                                     *)
(***************************************************************************)
Compound(kind, name, len, start) ==
    [kind |-> kind, name |-> name, len |-> len, done |-> 0, key |-> FALSE,
     start |-> start, items |-> <<>>]

Top == stack[Len(stack)]

SeqLike == {"seq", "tuple", "tuple_struct", "tuple_variant"}

\* The value a closed compound stands for in the compound around it.
Built(c) ==
    CASE c.kind = "seq" -> VSeq(c.items)
      [] c.kind = "tuple" -> VTuple(c.items)
      [] c.kind = "tuple_struct" -> VTupleStruct(c.items)
      [] c.kind = "tuple_variant" -> VTupleVariant(c.name, c.items)
      [] c.kind = "map" -> VMap(c.items)
      [] c.kind = "struct" -> VStruct(c.items)
      [] c.kind = "struct_variant" -> VStructVariant(c.name, c.items)

\* The stack once the innermost open compound has been supplied with v.
Supplied(stk, v) ==
    IF stk = <<>> THEN stk
    ELSE [stk EXCEPT ![Len(stk)] =
            [@ EXCEPT !.done = @ + 1, !.key = FALSE, !.items = Append(@, v)]]

\* A Serializer that has been given nothing yet.
Fresh == stack = <<>> /\ op = "new"

\* A value may start here: in a fresh Serializer, or as the next element of a
\* sequence, tuple, tuple struct or tuple variant (serialize_element hands the
\* serializer to the element and writes nothing itself).
AtElement ==
    /\ stack # <<>>
    /\ Top.kind \in SeqLike
    /\ Top.done < Top.len

\* The values, keys and names the caller supplies.
ElemValues ==
    IF Len(stack) <= 1
      THEN {VInt("i64", 0 - MaxInt), VStr(<<97>>), VStr(<<233, 13>>), VBytes(<<255>>), VNone,
            VSome(VInt("u64", 5)), VSeq(<<VBool(TRUE), VUnit>>), VIter(<<>>)}
      ELSE {VInt("u64", 1)}

KeyValues == IF Len(stack) <= 1 THEN {VStr(<<97>>), VInt("i64", 1)} ELSE {VStr(<<98>>)}

FieldNames == IF Len(stack) <= 1 THEN {NameA, NameInt} ELSE {NameSeq}

Lens == {<<>>} \cup {<<n>> : n \in 0..MaxSeqLen}

\* Option<usize> and usize as values, for args.
VLen(len) == IF len = <<>> THEN VNone ELSE VSome(VInt("u64", len[1]))

\* A method that serializes a whole value v and returns r.
Whole(name, a, r, v) ==
    /\ output' = r.output
    /\ res' = r.res
    /\ op' = name
    /\ args' = a
    /\ before' = output
    /\ stack' = IF r.res = "Ok" THEN Supplied(stack, v) ELSE stack
    /\ UNCHANGED nested
    /\ UNCHANGED callVars

\* A method that opens a compound and returns r.
Opens(name, a, r, c) ==
    /\ output' = r.output
    /\ res' = r.res
    /\ op' = name
    /\ args' = a
    /\ before' = output
    /\ stack' = IF r.res = "Ok" THEN Append(stack, c) ELSE stack
    /\ nested' = IF stack = <<>> THEN nested ELSE nested + 1
    /\ UNCHANGED callVars

CanOpen ==
    /\ res = "Ok"
    /\ \/ Fresh
       \/ AtElement /\ nested < MaxNested

SerializeBool ==
    /\ res = "Ok" /\ Fresh
    /\ \E v \in BOOLEAN :
         Whole("serialize_bool", <<VBool(v)>>, serialize_bool(output, v), VBool(v))

SerializeI8 ==
    /\ res = "Ok" /\ Fresh
    /\ \E v \in (0 - MaxInt)..MaxInt :
         Whole("serialize_i8", <<VInt("i8", v)>>, serialize_i8(output, v), VInt("i8", v))

SerializeI16 ==
    /\ res = "Ok" /\ Fresh
    /\ \E v \in (0 - MaxInt)..MaxInt :
         Whole("serialize_i16", <<VInt("i16", v)>>, serialize_i16(output, v), VInt("i16", v))

SerializeI32 ==
    /\ res = "Ok" /\ Fresh
    /\ \E v \in (0 - MaxInt)..MaxInt :
         Whole("serialize_i32", <<VInt("i32", v)>>, serialize_i32(output, v), VInt("i32", v))

SerializeI64 ==
    /\ res = "Ok" /\ Fresh
    /\ \E v \in (0 - MaxInt)..MaxInt :
         Whole("serialize_i64", <<VInt("i64", v)>>, serialize_i64(output, v), VInt("i64", v))

SerializeU8 ==
    /\ res = "Ok" /\ Fresh
    /\ \E v \in 0..MaxInt :
         Whole("serialize_u8", <<VInt("u8", v)>>, serialize_u8(output, v), VInt("u8", v))

SerializeU16 ==
    /\ res = "Ok" /\ Fresh
    /\ \E v \in 0..MaxInt :
         Whole("serialize_u16", <<VInt("u16", v)>>, serialize_u16(output, v), VInt("u16", v))

SerializeU32 ==
    /\ res = "Ok" /\ Fresh
    /\ \E v \in 0..MaxInt :
         Whole("serialize_u32", <<VInt("u32", v)>>, serialize_u32(output, v), VInt("u32", v))

SerializeU64 ==
    /\ res = "Ok" /\ Fresh
    /\ \E v \in 0..MaxInt :
         Whole("serialize_u64", <<VInt("u64", v)>>, serialize_u64(output, v), VInt("u64", v))

SerializeChar ==
    /\ res = "Ok" /\ Fresh
    /\ \E v \in Chars :
         Whole("serialize_char", <<VChar(v)>>, serialize_char(output, v), VChar(v))

CollectStr ==
    /\ res = "Ok" /\ Fresh
    /\ \E v \in SeqsUpTo(Chars, MaxStrLen) :
         Whole("collect_str", <<VStr(v)>>, collect_str(output, v), VStr(v))

SerializeStr ==
    /\ res = "Ok" /\ Fresh
    /\ \E v \in SeqsUpTo(Chars, MaxStrLen) :
         Whole("serialize_str", <<VStr(v)>>, serialize_str(output, v), VStr(v))

SerializeBytes ==
    /\ res = "Ok" /\ Fresh
    /\ \E v \in SeqsUpTo(ByteVals, MaxBytesLen) :
         Whole("serialize_bytes", <<VBytes(v)>>, serialize_bytes(output, v), VBytes(v))

SerializeUnit ==
    /\ res = "Ok" /\ Fresh
    /\ Whole("serialize_unit", <<>>, serialize_unit(output), VUnit)

SerializeUnitStruct ==
    /\ res = "Ok" /\ Fresh
    /\ Whole("serialize_unit_struct", <<>>, serialize_unit_struct(output), VUnitStruct)

SerializeNewtypeStruct ==
    /\ res = "Ok" /\ Fresh
    /\ \E v \in ElemValues :
         Whole("serialize_newtype_struct", <<v>>, serialize_newtype_struct(output, v),
               VNewtypeStruct(v))

SerializeNone ==
    /\ res = "Ok" /\ Fresh
    /\ Whole("serialize_none", <<>>, serialize_none(output), VNone)

SerializeSome ==
    /\ res = "Ok" /\ Fresh
    /\ \E v \in ElemValues :
         Whole("serialize_some", <<v>>, serialize_some(output, v), VSome(v))

SerializeUnitVariant ==
    /\ res = "Ok" /\ Fresh
    /\ \E name \in {NameUnit, NameTuple} :
         Whole("serialize_unit_variant", <<VStr(name)>>,
               serialize_unit_variant(output, name), VUnitVariant(name))

SerializeNewtypeVariant ==
    /\ res = "Ok" /\ Fresh
    /\ \E name \in {NameNewtype}, v \in ElemValues :
         Whole("serialize_newtype_variant", <<VStr(name), v>>,
               serialize_newtype_variant(output, name, v), VNewtypeVariant(name, v))

SerializeSeq ==
    /\ CanOpen
    /\ \E len \in Lens :
         Opens("serialize_seq", <<VLen(len)>>, serialize_seq(output, len),
               Compound("seq", <<>>, IF len = <<>> THEN 0 ELSE len[1], Len(output)))

SerializeTuple ==
    /\ CanOpen
    /\ \E len \in 0..MaxSeqLen :
         Opens("serialize_tuple", <<VInt("u64", len)>>, serialize_tuple(output, len),
               Compound("tuple", <<>>, len, Len(output)))

SerializeTupleStruct ==
    /\ CanOpen
    /\ \E len \in 0..MaxSeqLen :
         Opens("serialize_tuple_struct", <<VInt("u64", len)>>, serialize_tuple_struct(output, len),
               Compound("tuple_struct", <<>>, len, Len(output)))

SerializeTupleVariant ==
    /\ CanOpen
    /\ \E name \in {NameTuple}, len \in 0..MaxSeqLen :
         Opens("serialize_tuple_variant", <<VStr(name), VInt("u64", len)>>,
               serialize_tuple_variant(output, name, len),
               Compound("tuple_variant", name, len, Len(output)))

SerializeMap ==
    /\ CanOpen
    /\ \E len \in Lens :
         Opens("serialize_map", <<VLen(len)>>, serialize_map(output, len),
               Compound("map", <<>>, IF len = <<>> THEN 0 ELSE len[1], Len(output)))

SerializeStruct ==
    /\ CanOpen
    /\ \E len \in 0..MaxSeqLen :
         Opens("serialize_struct", <<VInt("u64", len)>>, serialize_struct(output, len),
               Compound("struct", <<>>, len, Len(output)))

SerializeStructVariant ==
    /\ CanOpen
    /\ \E name \in {NameStruct}, len \in 0..MaxSeqLen :
         Opens("serialize_struct_variant", <<VStr(name), VInt("u64", len)>>,
               serialize_struct_variant(output, name, len),
               Compound("struct_variant", name, len, Len(output)))

\* The next element, entry or field of the innermost open compound.
Expecting(kind) ==
    /\ res = "Ok"
    /\ stack # <<>>
    /\ Top.kind = kind
    /\ Top.done < Top.len

SeqSerializeElement ==
    /\ Expecting("seq")
    /\ \E v \in ElemValues :
         Whole("SerializeSeq::serialize_element", <<v>>,
               SerializeSeq_serialize_element(output, v), v)

TupleSerializeElement ==
    /\ Expecting("tuple")
    /\ \E v \in ElemValues :
         Whole("SerializeTuple::serialize_element", <<v>>,
               SerializeTuple_serialize_element(output, v), v)

TupleStructSerializeField ==
    /\ Expecting("tuple_struct")
    /\ \E v \in ElemValues :
         Whole("SerializeTupleStruct::serialize_field", <<v>>,
               SerializeTupleStruct_serialize_field(output, v), v)

TupleVariantSerializeField ==
    /\ Expecting("tuple_variant")
    /\ \E v \in ElemValues :
         Whole("SerializeTupleVariant::serialize_field", <<v>>,
               SerializeTupleVariant_serialize_field(output, v), v)

\* serialize_key leaves the entry open until serialize_value.
MapSerializeKey ==
    /\ Expecting("map")
    /\ ~Top.key
    /\ \E k \in KeyValues :
         LET r == SerializeMap_serialize_key(output, k)
         IN  /\ output' = r.output
             /\ res' = r.res
             /\ op' = "SerializeMap::serialize_key"
             /\ args' = <<k>>
             /\ before' = output
             /\ stack' = [stack EXCEPT ![Len(stack)] =
                            [@ EXCEPT !.key = TRUE,
                                      !.items = Append(@, Val("key", FALSE, 0, <<>>, <<k>>))]]
             /\ UNCHANGED nested
             /\ UNCHANGED callVars

MapSerializeValue ==
    /\ Expecting("map")
    /\ Top.key
    /\ \E v \in ElemValues :
         LET r == SerializeMap_serialize_value(output, v)
         IN  /\ output' = r.output
             /\ res' = r.res
             /\ op' = "SerializeMap::serialize_value"
             /\ args' = <<v>>
             /\ before' = output
             /\ stack' = [stack EXCEPT ![Len(stack)] =
                            [@ EXCEPT !.key = FALSE, !.done = @ + 1,
                                      !.items = Append(@, Val("value", FALSE, 0, <<>>, <<v>>))]]
             /\ UNCHANGED nested
             /\ UNCHANGED callVars

MapSerializeEntry ==
    /\ Expecting("map")
    /\ ~Top.key
    /\ \E k \in KeyValues, v \in ElemValues :
         Whole("SerializeMap::serialize_entry", <<k, v>>,
               SerializeMap_serialize_entry(output, k, v), VEntry(k, v))

StructSerializeField ==
    /\ Expecting("struct")
    /\ \E key \in FieldNames, v \in ElemValues :
         Whole("SerializeStruct::serialize_field", <<VStr(key), v>>,
               SerializeStruct_serialize_field(output, key, v), VField(key, v))

StructVariantSerializeField ==
    /\ Expecting("struct_variant")
    /\ \E key \in FieldNames, v \in ElemValues :
         Whole("SerializeStructVariant::serialize_field", <<VStr(key), v>>,
               SerializeStructVariant_serialize_field(output, key, v), VField(key, v))

\* end of the innermost open compound, once it has all it declared; the
\* compound then counts as an element of the compound around it.
End ==
    /\ res = "Ok"
    /\ stack # <<>>
    /\ Top.done = Top.len
    /\ LET r == end(output)
       IN  /\ output' = r.output
           /\ res' = r.res
           /\ op' = "end"
           /\ args' = <<>>
           /\ before' = output
           /\ stack' = Supplied(SubSeq(stack, 1, Len(stack) - 1), Built(Top))
           /\ UNCHANGED nested
           /\ UNCHANGED callVars

\* The traversal is over, with a value or an error: the Serializer is dropped
\* and the next call starts with Serializer { output: Vec::new() }.
NewSerializer ==
    /\ \/ res # "Ok"
       \/ stack = <<>> /\ op # "new"
    /\ output' = <<>>
    /\ stack' = <<>>
    /\ nested' = 0
    /\ res' = "Ok"
    /\ op' = "new"
    /\ args' = <<>>
    /\ before' = <<>>
    /\ UNCHANGED callVars

Init == InitSerializer /\ InitCall

Next ==
    \/ SerializeBool
    \/ SerializeI8
    \/ SerializeI16
    \/ SerializeI32
    \/ SerializeI64
    \/ SerializeU8
    \/ SerializeU16
    \/ SerializeU32
    \/ SerializeU64
    \/ SerializeChar
    \/ CollectStr
    \/ SerializeStr
    \/ SerializeBytes
    \/ SerializeUnit
    \/ SerializeUnitStruct
    \/ SerializeNewtypeStruct
    \/ SerializeNone
    \/ SerializeSome
    \/ SerializeUnitVariant
    \/ SerializeNewtypeVariant
    \/ SerializeSeq
    \/ SerializeTuple
    \/ SerializeTupleStruct
    \/ SerializeTupleVariant
    \/ SerializeMap
    \/ SerializeStruct
    \/ SerializeStructVariant
    \/ SeqSerializeElement
    \/ TupleSerializeElement
    \/ TupleStructSerializeField
    \/ TupleVariantSerializeField
    \/ MapSerializeKey
    \/ MapSerializeValue
    \/ MapSerializeEntry
    \/ StructSerializeField
    \/ StructVariantSerializeField
    \/ End
    \/ NewSerializer

Spec == Init /\ [][Next]_vars


(***************************************************************************)
(* Properties of the Serializer's methods, under Spec.                     *)
(***************************************************************************)
IsPrefix(a, b) == Len(a) <= Len(b) /\ SubSeq(b, 1, Len(a)) = a

\* The buffer is one frame tree and nothing else.
WellFormed(buf) == parse_frame(buf, 1).ok /\ parse_frame(buf, 1).next = Len(buf) + 1

\* C2: once a compound opened with a declared count has been given its
\* elements, keys and values, entries or fields and end has returned, the
\* buffer is one well-formed frame tree: every array header is followed by
\* as many frames as it declares.
C2_WellFormedAfterEnd ==
    (op = "end" /\ res = "Ok" /\ stack = <<>>) => WellFormed(output)

\* C3: serialize_seq(None) and serialize_map(None) fail with LenNotKnown and
\* leave the buffer as it was before the call.
C3_LenNotKnown ==
    (op \in {"serialize_seq", "serialize_map"}) =>
        IF args = <<VNone>>
          THEN res = "LenNotKnown" /\ output = before
          ELSE res = "Ok" /\ output = before \o ArrayHeader(args[1].kids[1].n)

C3_Witness ==
    /\ op = "serialize_map"
    /\ args = <<VNone>>
    /\ res = "LenNotKnown"
    /\ before # <<>>
    /\ output = before

\* What the caller's i-th call on an open map added to the buffer: an entry
\* is "*2\r\n", its key and its value; a key or a value on its own is nothing.
MapItemBytes(item) ==
    IF item.t = "entry" THEN PairHeader \o Enc(item.kids[1]) \o Enc(item.kids[2]) ELSE <<>>

\* C8: a map that declared n entries is the array header of count n followed
\* by one "*2\r\n" key value per serialize_entry, in the order of the calls;
\* serialize_key and serialize_value succeed and add nothing.
C8_MapEncoding ==
    /\ (op \in {"SerializeMap::serialize_key", "SerializeMap::serialize_value"} =>
          res = "Ok" /\ output = before)
    /\ ((res = "Ok" /\ stack # <<>> /\ Top.kind = "map") =>
          SubSeq(output, Top.start + 1, Len(output))
            = ArrayHeader(Top.len)
                \o Concat([i \in 1..Len(Top.items) |-> MapItemBytes(Top.items[i])]))

C8_Witness ==
    /\ res = "Ok"
    /\ stack # <<>>
    /\ Top.kind = "map"
    /\ Top.done = 2
    /\ Top.start > 0
    /\ Len(Top.items) = 3
    /\ Top.items[1] = VEntry(VStr(<<98>>), VInt("u64", 1))
    /\ Top.items[2].t = "key"
    /\ Top.items[3].t = "value"

\* C10: every method leaves the bytes already in the buffer where they are:
\* the buffer before the call is a prefix of the buffer after it, whether the
\* call succeeded or failed.
C10_AppendOnly == IsPrefix(before, output)

C10_Witness ==
    /\ op = "SerializeMap::serialize_entry"
    /\ res = "LenNotKnown"
    /\ before # <<>>
    /\ Len(output) > Len(before)
    /\ IsPrefix(before, output)

====
